---- MODULE Spec2Model ----
(***************************************************************************)
(* Model of the workflow orchestration engine of the ShilpSetu multi-agent *)
(* system: agents/orchestrator.py (AgentOrchestrator), with the terminal   *)
(* outcomes of agents/base_agent.py (execute_with_retry) as the results of *)
(* the stage calls.                                                        *)
(*                                                                         *)
(* Python conventions used throughout:                                     *)
(*   None            the empty sequence <<>>; a present value x is <<x>>   *)
(*                   (for fields holding a string, the string "None")      *)
(*   dict            a function from key strings to values; a key is       *)
(*                   present exactly when it is in the DOMAIN              *)
(*   list            a sequence                                            *)
(*   object sharing  a workflow record is one object, workflow[w]; the     *)
(*                   active dict and the history list hold references to   *)
(*                   it (its id), as the Python containers do              *)
(* One asyncio task runs each process_product call; a task runs without    *)
(* interruption between two awaits, so one action is the code between two  *)
(* suspension points (the stage calls).                                    *)
(***************************************************************************)
EXTENDS Integers, Sequences, FiniteSets, TLC

\* ------------------------------------------------------------------ bounds
\* number of process_product calls in a run (each draws a fresh workflow id);
\* one more than the ceiling, so that a submission meets a full active set
NumWorkflows == 2
\* the configuration knob max_concurrent_workflows (orchestrator.py:52 sets
\* the default 5); checked here at the ceilings 1 and, with 3 calls, 2
max_concurrent_workflows == 1
\* largest elapsed time (seconds) of a stage given to the result compiler
MaxElapsed == 1
\* number of direct calls of the result compiler on one set of arguments
MaxCompileCalls == 2
\* longest time (seconds) one process call of an agent takes
MaxProcessTime == 1
\* number of process_product calls in a run that fills the history beyond the
\* entries get_system_status lists
NumHistoryWorkflows == 11

\* ------------------------------------------------------- program constants
IMAGE_COUNT_DEFAULT == 2
MAX_RETRIES == 3
\* the number of history entries get_system_status lists
RECENT_WORKFLOWS == 10

PROMPT_GENERATOR == "prompt_generator"
IMAGE_GENERATOR == "image_generator"
VIDEO_GENERATOR == "video_generator"

PENDING == "pending"
RUNNING == "running"
COMPLETED == "completed"
FAILED == "failed"
PARTIAL_SUCCESS == "partial_success"

CapacityError == "Maximum concurrent workflows reached. Please try again later."
CancelError == "Workflow cancelled by user"
MaxRetriesError == "Max retries exceeded"
FailedAfterError == "Failed after 3 attempts: service unavailable"

\* the workflow ids uuid4() hands out: call number w gets id w
WorkflowIds == 1 .. NumWorkflows

VARIABLES
    pc,                 \* pc[w]: where the task of call w is suspended
    workflow,           \* workflow[w]: the record object of workflow w
    active_workflows,   \* keys of self.active_workflows
    workflow_history,   \* self.workflow_history, a list of record references
    clock,              \* datetime.now(): a logical clock, which ticks whenever a
                        \* record is moved to history
    responses,          \* responses[w]: the stage outcomes _execute_workflow holds
    calls,              \* calls[w]: the execute_with_retry calls made for w
    returned,           \* returned[w]: what process_product returned (or None)
    cancel_returned,    \* the last cancel_workflow call and what it returned
    compile_args,       \* the arguments of a direct result-compiler call
    compiled,           \* what that call returned (or None)
    retry_pc,           \* where an execute_with_retry call is suspended
    self_agent_type,    \* self.agent_type of the agent the call is made on
    max_retries,        \* the max_retries argument of the call
    attempt,            \* the loop variable of execute_with_retry
    start_time,         \* its local start_time
    is_busy,            \* self.is_busy
    last_activity,      \* self.last_activity
    log,                \* the attempts and sleeps of the call so far, in order
    retry_returned,     \* what the call returned (or None)
    batch_pc,           \* where a process_batch call is suspended
    product_inputs,     \* its product_inputs argument
    max_concurrent,     \* its local max_concurrent, the size of the semaphore
    batch_returned      \* what the call returned (or None)

\* the variables of an execute_with_retry call
retry_vars == <<retry_pc, self_agent_type, max_retries, attempt, start_time,
                is_busy, last_activity, log, retry_returned>>

\* the variables of a process_batch call
batch_vars == <<batch_pc, product_inputs, max_concurrent, batch_returned>>

\* the variables of the orchestrator, the clock apart
orchestrator_vars == <<pc, workflow, active_workflows, workflow_history,
                       responses, calls, returned, cancel_returned,
                       compile_args, compiled, batch_vars>>

vars == <<pc, workflow, active_workflows, workflow_history, clock, responses,
          calls, returned, cancel_returned, compile_args, compiled, retry_vars,
          batch_vars>>

\* ---------------------------------------------------------- stage outcomes
ProductInput(description, optional_image_url, product_id) ==
    [description |-> description, optional_image_url |-> optional_image_url,
     product_id |-> product_id]

\* the product id the caller gives the request of call number w
ProductIdOf(w) == <<"prod", w>>

\* the request of call number w: calls alternate between the two kinds
RequestOf(w) ==
    IF w % 2 = 1
    THEN ProductInput("vase", <<"ref.png">>, ProductIdOf(w))
    ELSE ProductInput("vase", <<>>, ProductIdOf(w))

AgentResponse(success, data, error, execution_time, agent_type) ==
    [success |-> success, data |-> data, error |-> error,
     execution_time |-> execution_time, agent_type |-> agent_type]

\* a failed terminal outcome of execute_with_retry
FailedResponse(agent_type, errors, times) ==
    { AgentResponse(FALSE, <<>>, e, t, agent_type) : e \in errors, t \in times }

PromptData(product_input) ==
    [generated_prompt |-> [image_prompt |-> "ip", video_prompt |-> "vp"],
     image_prompt_details |-> "ipd",
     video_prompt_details |-> "vpd",
     product_input |-> product_input]

PromptOutcomes(product_input, errors, times) ==
    { AgentResponse(TRUE, <<PromptData(product_input)>>, "None", t, PROMPT_GENERATOR)
        : t \in times }
    \cup FailedResponse(PROMPT_GENERATOR, errors, times)

ImageLists == { <<"img1.png">>, <<"img1.png", "img2.png">> }

ImageData(images, image_count) ==
    [generated_images |-> images,
     successful_count |-> Len(images),
     failed_count |-> image_count - Len(images),
     generation_settings |-> [image_count |-> image_count]]

ImageOutcomes(image_input, errors, times) ==
    { AgentResponse(TRUE, <<ImageData(imgs, image_input.image_count)>>, "None", t,
                    IMAGE_GENERATOR)
        : imgs \in ImageLists, t \in times }
    \cup FailedResponse(IMAGE_GENERATOR, errors, times)

\* the image sources the video agent can draw on
HasImageSource(video_input) ==
    \/ video_input.generated_images # <<>>
    \/ video_input.product_input.optional_image_url # <<>>

VideoData(video_input) ==
    [generated_video |-> [video_url |-> "video.mp4",
                          source_images |-> video_input.generated_images],
     video_details |-> "vd"]

VideoOutcomes(video_input, errors, times) ==
    (IF HasImageSource(video_input)
     THEN { AgentResponse(TRUE, <<VideoData(video_input)>>, "None", t, VIDEO_GENERATOR)
              : t \in times }
     ELSE {})
    \cup FailedResponse(VIDEO_GENERATOR, errors, times)

\* dict.get(key, default) on the data of a response
Get(data, key, default) == IF key \in DOMAIN data THEN data[key] ELSE default


\* -------------------------------------------------------- result compiler
\* (mutant) the second partial-success scenario is lost
PartialSuccess_both_failed(prompt_response, image_response, video_response) ==
    prompt_response.success /\ ~image_response.success /\ ~video_response.success

\* the partial-success scenarios of _compile_workflow_results
PartialSuccess(prompt_response, image_response, video_response) ==
    IF prompt_response.success /\ ~image_response.success /\ ~video_response.success
    THEN TRUE
    ELSE IF prompt_response.success /\ image_response.success /\ ~video_response.success
    THEN TRUE
    ELSE FALSE

\* (mutant) the video outcome is left out of the overall success
OverallSuccess_ignores_video(prompt_response, image_response, video_response) ==
    prompt_response.success /\ image_response.success

OverallSuccess(prompt_response, image_response, video_response) ==
    prompt_response.success /\ image_response.success /\ video_response.success

B2N(b) == IF b THEN 1 ELSE 0

ExecutionSummary(prompt_response, image_response, video_response) ==
    [total_execution_time |->
        prompt_response.execution_time + image_response.execution_time
        + video_response.execution_time,
     agents_succeeded |->
        B2N(prompt_response.success) + B2N(image_response.success)
        + B2N(video_response.success),
     agents_failed |->
        B2N(~prompt_response.success) + B2N(~image_response.success)
        + B2N(~video_response.success)]

\* the sections added for the successful agents
PromptSection(prompt_response) ==
    IF prompt_response.success
    THEN ("generated_prompts" :> Get(prompt_response.data[1], "generated_prompt", <<>>))
         @@ ("prompt_details" :>
                [image_prompt_details |->
                    Get(prompt_response.data[1], "image_prompt_details", <<>>),
                 video_prompt_details |->
                    Get(prompt_response.data[1], "video_prompt_details", <<>>)])
    ELSE <<>>

ImageSection(image_response) ==
    IF image_response.success
    THEN ("generated_images" :> Get(image_response.data[1], "generated_images", <<>>))
         @@ ("image_generation_stats" :>
                [successful_count |-> Get(image_response.data[1], "successful_count", 0),
                 failed_count |-> Get(image_response.data[1], "failed_count", 0),
                 generation_settings |->
                    Get(image_response.data[1], "generation_settings", <<>>)])
    ELSE <<>>

\* (mutant) the section of a failed video agent is there and empty
VideoSection_empty_on_failure(video_response) ==
    IF video_response.success
    THEN ("generated_video" :> Get(video_response.data[1], "generated_video", <<>>))
         @@ ("video_details" :> Get(video_response.data[1], "video_details", <<>>))
    ELSE ("generated_video" :> <<>>) @@ ("video_details" :> <<>>)

VideoSection(video_response) ==
    IF video_response.success
    THEN ("generated_video" :> Get(video_response.data[1], "generated_video", <<>>))
         @@ ("video_details" :> Get(video_response.data[1], "video_details", <<>>))
    ELSE <<>>

\* (mutant) the image agent's error is listed whatever its outcome
Errors_always_image(prompt_response, image_response, video_response) ==
    (IF ~prompt_response.success
     THEN << <<"Prompt generation", prompt_response.error>> >> ELSE <<>>)
    \o << <<"Image generation", image_response.error>> >>
    \o (IF ~video_response.success
        THEN << <<"Video generation", video_response.error>> >> ELSE <<>>)

\* (mutant) the entries are appended from the last agent to the first
Errors_video_first(prompt_response, image_response, video_response) ==
    (IF ~video_response.success
     THEN << <<"Video generation", video_response.error>> >> ELSE <<>>)
    \o (IF ~image_response.success
        THEN << <<"Image generation", image_response.error>> >> ELSE <<>>)
    \o (IF ~prompt_response.success
        THEN << <<"Prompt generation", prompt_response.error>> >> ELSE <<>>)

\* the error information for the failed agents
Errors(prompt_response, image_response, video_response) ==
    (IF ~prompt_response.success
     THEN << <<"Prompt generation", prompt_response.error>> >> ELSE <<>>)
    \o (IF ~image_response.success
        THEN << <<"Image generation", image_response.error>> >> ELSE <<>>)
    \o (IF ~video_response.success
        THEN << <<"Video generation", video_response.error>> >> ELSE <<>>)

ErrorsSection(prompt_response, image_response, video_response) ==
    IF Errors(prompt_response, image_response, video_response) # <<>>
    THEN "errors" :> Errors(prompt_response, image_response, video_response)
    ELSE <<>>

_compile_workflow_results(workflow_id, prompt_response, image_response, video_response, now) ==
    [success |-> OverallSuccess(prompt_response, image_response, video_response),
     partial_success |-> PartialSuccess(prompt_response, image_response, video_response),
     workflow_id |-> workflow_id,
     timestamp |-> now,
     execution_summary |->
        ExecutionSummary(prompt_response, image_response, video_response)]
    @@ PromptSection(prompt_response)
    @@ ImageSection(image_response)
    @@ VideoSection(video_response)
    @@ ErrorsSection(prompt_response, image_response, video_response)


\* ------------------------------------------------------------ orchestrator
\* the stage outcomes a workflow run can meet
StageErrors == {MaxRetriesError}
StageTimes == {1}

\* (created_at and workflow_options are left out of the record: nothing
\* modelled reads them)
_initialize_workflow(workflow_id, product_input) ==
    [workflow_id |-> workflow_id,
     product_input |-> product_input,
     status |-> PENDING,
     completed_at |-> <<>>,
     agents_executed |-> <<>>,
     current_agent |-> "None",
     result |-> <<>>,
     error |-> "None"]

\* the clock after a step: it ticks with every append to the history
Tick == clock' = IF workflow_history' # workflow_history THEN clock + 1 ELSE clock

NoResponses == [prompt |-> <<>>, image |-> <<>>, video |-> <<>>]

\* (mutant) the limit check is left out
LimitReached_never(active) == FALSE

\* (mutant) the limit check is off by one
LimitReached_strict(active) == Cardinality(active) > max_concurrent_workflows

\* the concurrent workflow limit check of process_product
LimitReached(active) == Cardinality(active) >= max_concurrent_workflows

\* what process_product returns from its except branch
FailureResult(workflow_id, e, now) ==
    [success |-> FALSE, workflow_id |-> workflow_id, error |-> e, timestamp |-> now]

\* (mutant) the except branch forgets the status
FailWorkflow_keeps_status(record, e, now) ==
    [record EXCEPT !.error = e, !.completed_at = <<now>>]

\* the record update of process_product's except branch
FailWorkflow(record, e, now) ==
    [record EXCEPT !.status = FAILED, !.error = e, !.completed_at = <<now>>]

\* (mutant) the except branch moves the record to history without looking
\* whether the workflow is in the active set
ExceptBranch_unconditional(w, e, wf, history, active) ==
    /\ workflow' = [wf EXCEPT ![w] = FailWorkflow(wf[w], e, clock)]
    /\ workflow_history' = Append(history, w)
    /\ active_workflows' = active \ {w}
    /\ returned' = [returned EXCEPT ![w] = <<FailureResult(w, e, clock)>>]
    /\ pc' = [pc EXCEPT ![w] = "returned"]

\* (mutant) the except branch lets the exception of a workflow that is not in
\* the active set go on to the caller
ExceptBranch_reraises(w, e, wf, history, active) ==
    IF w \in active
    THEN /\ workflow' = [wf EXCEPT ![w] = FailWorkflow(wf[w], e, clock)]
         /\ workflow_history' = Append(history, w)
         /\ active_workflows' = active \ {w}
         /\ returned' = [returned EXCEPT ![w] = <<FailureResult(w, e, clock)>>]
         /\ pc' = [pc EXCEPT ![w] = "returned"]
    ELSE /\ workflow' = wf
         /\ workflow_history' = history
         /\ active_workflows' = active
         /\ returned' = returned
         /\ pc' = [pc EXCEPT ![w] = "raised"]

\* (mutant) the except branch appends the record to history and leaves it in
\* the active set
ExceptBranch_no_del(w, e, wf, history, active) ==
    /\ IF w \in active
       THEN /\ workflow' = [wf EXCEPT ![w] = FailWorkflow(wf[w], e, clock)]
            /\ workflow_history' = Append(history, w)
            /\ active_workflows' = active
       ELSE /\ workflow' = wf
            /\ workflow_history' = history
            /\ active_workflows' = active
    /\ returned' = [returned EXCEPT ![w] = <<FailureResult(w, e, clock)>>]
    /\ pc' = [pc EXCEPT ![w] = "returned"]

\* the except branch of process_product, entered with the registry as the try
\* block left it (wf, history, active)
ExceptBranch(w, e, wf, history, active) ==
    /\ IF w \in active
       THEN /\ workflow' = [wf EXCEPT ![w] = FailWorkflow(wf[w], e, clock)]
            /\ workflow_history' = Append(history, w)
            /\ active_workflows' = active \ {w}
       ELSE /\ workflow' = wf
            /\ workflow_history' = history
            /\ active_workflows' = active
    /\ returned' = [returned EXCEPT ![w] = <<FailureResult(w, e, clock)>>]
    /\ pc' = [pc EXCEPT ![w] = "returned"]

ExecutedEntry(agent, response) ==
    [agent |-> agent,
     status |-> IF response.success THEN "completed" ELSE "failed",
     execution_time |-> response.execution_time,
     error |-> IF ~response.success THEN response.error ELSE "None"]

\* the entry _execute_workflow appends for the prompt agent (it has no error key)
PromptExecutedEntry(response) ==
    [agent |-> PROMPT_GENERATOR,
     status |-> "completed",
     execution_time |-> response.execution_time]

ImageInput(prompt_response) ==
    prompt_response.data[1] @@ ("image_count" :> IMAGE_COUNT_DEFAULT)

\* (mutant) the video agent never gets the generated images
VideoImages_always_empty(image_response) == <<>>

\* the generated images _execute_workflow hands to the video agent
VideoImages(image_response) ==
    IF image_response.success
    THEN Get(image_response.data[1], "generated_images", <<>>)
    ELSE <<>>

VideoInput(prompt_response, image_response) ==
    prompt_response.data[1]
    @@ ("generated_images" :> VideoImages(image_response))
    @@ ("workflow_options" :> <<>>)

\* (mutant) the image and the video agent are called in each other's place
Call_swapped(agent, input) ==
    [agent |-> IF agent = IMAGE_GENERATOR THEN VIDEO_GENERATOR
               ELSE IF agent = VIDEO_GENERATOR THEN IMAGE_GENERATOR
               ELSE agent,
     input |-> input]

\* a stage call: agent.execute_with_retry(input, max_retries)
Call(agent, input) == [agent |-> agent, input |-> input]

\* process_product up to its first suspension point: the capacity check, the
\* registration and the start of _execute_workflow up to the prompt stage call
process_product(w, product_input) ==
    /\ pc[w] = "idle"
    /\ \A v \in WorkflowIds : v < w => pc[v] # "idle"
    /\ UNCHANGED <<responses, cancel_returned, compile_args, compiled, retry_vars, batch_vars>>
    /\ LET record == _initialize_workflow(w, product_input)
       IN IF LimitReached(active_workflows)
          THEN /\ ExceptBranch(w, CapacityError, workflow @@ (w :> record),
                               workflow_history, active_workflows)
               /\ UNCHANGED calls
          ELSE /\ active_workflows' = active_workflows \cup {w}
               /\ workflow' = workflow @@
                    (w :> [record EXCEPT !.status = RUNNING,
                                         !.current_agent = PROMPT_GENERATOR])
               /\ calls' = [calls EXCEPT ![w] =
                                Append(@, Call(PROMPT_GENERATOR, product_input))]
               /\ pc' = [pc EXCEPT ![w] = PROMPT_GENERATOR]
               /\ UNCHANGED <<workflow_history, returned>>
    /\ Tick

\* the prompt stage call returns: _execute_workflow up to the image stage call,
\* or the failure of the workflow
PromptReturns(w, r) ==
    /\ pc[w] = PROMPT_GENERATOR
    /\ responses' = [responses EXCEPT ![w].prompt = <<r>>]
    /\ UNCHANGED <<cancel_returned, compile_args, compiled, retry_vars, batch_vars>>
    /\ IF ~r.success
       THEN /\ ExceptBranch(w, <<"Prompt generation failed", r.error>>, workflow,
                            workflow_history, active_workflows)
                    /\ UNCHANGED calls
       ELSE /\ workflow' = [workflow EXCEPT
                    ![w].agents_executed = Append(@, PromptExecutedEntry(r)),
                    ![w].current_agent = IMAGE_GENERATOR]
            /\ calls' = [calls EXCEPT ![w] =
                            Append(@, Call(IMAGE_GENERATOR, ImageInput(r)))]
            /\ pc' = [pc EXCEPT ![w] = IMAGE_GENERATOR]
            /\ UNCHANGED <<active_workflows, workflow_history, returned>>
    /\ Tick

\* the image stage call returns: _execute_workflow up to the video stage call
ImageReturns(w, r) ==
    /\ pc[w] = IMAGE_GENERATOR
    /\ responses' = [responses EXCEPT ![w].image = <<r>>]
    /\ workflow' = [workflow EXCEPT
            ![w].agents_executed = Append(@, ExecutedEntry(IMAGE_GENERATOR, r)),
            ![w].current_agent = VIDEO_GENERATOR]
    /\ calls' = [calls EXCEPT ![w] =
                    Append(@, Call(VIDEO_GENERATOR,
                                   VideoInput(responses[w].prompt[1], r)))]
    /\ pc' = [pc EXCEPT ![w] = VIDEO_GENERATOR]
    /\ UNCHANGED <<active_workflows, workflow_history, returned, clock,
                   cancel_returned, compile_args, compiled, retry_vars, batch_vars>>

\* (mutant) a partial success gets the status of that name
FinalStatus_with_partial(result) ==
    IF result.success THEN COMPLETED
    ELSE IF result.partial_success THEN PARTIAL_SUCCESS ELSE FAILED

\* (mutant) every workflow that ran its stages is completed
FinalStatus_always_completed(result) == COMPLETED

\* the status process_product gives a workflow that _execute_workflow returned from
FinalStatus(result) == IF result.success THEN COMPLETED ELSE FAILED

\* (mutant) removing an id that is not in the active set raises nothing
DelRaises_never(workflow_id, active) == FALSE

\* del self.active_workflows[workflow_id] raises KeyError when the id is not in
\* the active set
DelRaises(workflow_id, active) == workflow_id \notin active

\* the video stage call returns: the rest of _execute_workflow, the result
\* compilation and the rest of process_product
VideoReturns(w, r) ==
    /\ pc[w] = VIDEO_GENERATOR
    /\ responses' = [responses EXCEPT ![w].video = <<r>>]
    /\ UNCHANGED <<calls, cancel_returned, compile_args, compiled, retry_vars, batch_vars>>
    /\ LET result == _compile_workflow_results(w, responses[w].prompt[1],
                                               responses[w].image[1], r, clock)
           wf == [workflow EXCEPT
                    ![w].agents_executed = Append(@, ExecutedEntry(VIDEO_GENERATOR, r)),
                    ![w].current_agent = "None",
                    ![w].status = FinalStatus(result),
                    ![w].completed_at = <<clock>>,
                    ![w].result = <<result>>]
           history == Append(workflow_history, w)
       IN IF ~DelRaises(w, active_workflows)
          THEN /\ workflow' = wf
               /\ workflow_history' = history
               /\ active_workflows' = active_workflows \ {w}
               /\ returned' = [returned EXCEPT ![w] = <<result>>]
               /\ pc' = [pc EXCEPT ![w] = "returned"]
          ELSE \* the KeyError goes to the except branch
               ExceptBranch(w, <<"KeyError", w>>, wf, history, active_workflows)
    /\ Tick

\* (mutant) cancel_workflow forgets the status
CancelRecord_keeps_status(record, now) ==
    [record EXCEPT !.error = CancelError, !.completed_at = <<now>>]

\* the record update of cancel_workflow
CancelRecord(record, now) ==
    [record EXCEPT !.status = FAILED, !.error = CancelError, !.completed_at = <<now>>]

cancel_workflow(workflow_id) ==
    /\ UNCHANGED <<pc, responses, calls, returned, compile_args, compiled, retry_vars, batch_vars>>
    /\ IF workflow_id \in active_workflows
       THEN /\ workflow' = [workflow EXCEPT
                              ![workflow_id] = CancelRecord(@, clock)]
            /\ workflow_history' = Append(workflow_history, workflow_id)
            /\ active_workflows' = active_workflows \ {workflow_id}
            /\ cancel_returned' = <<[workflow_id |-> workflow_id, result |-> TRUE]>>
       ELSE /\ cancel_returned' = <<[workflow_id |-> workflow_id, result |-> FALSE]>>
            /\ UNCHANGED <<workflow, workflow_history, active_workflows>>
    /\ Tick

\* the first record of a history with the given workflow id (or None)
FindInHistory(history, workflow_id) ==
    IF \E k \in DOMAIN history : workflow[history[k]].workflow_id = workflow_id
    THEN <<workflow[history[CHOOSE k \in DOMAIN history :
                /\ workflow[history[k]].workflow_id = workflow_id
                /\ \A j \in 1 .. k - 1 :
                        workflow[history[j]].workflow_id # workflow_id]]>>
    ELSE <<>>

\* (mutant) the history is not looked at
get_workflow_status_active_only(workflow_id) ==
    IF workflow_id \in active_workflows
    THEN <<[workflow_id |-> workflow_id,
            status |-> workflow[workflow_id].status,
            current_agent |-> workflow[workflow_id].current_agent,
            agents_executed |-> workflow[workflow_id].agents_executed,
            is_active |-> TRUE]>>
    ELSE <<>>

\* what get_workflow_status returns in the current state (created_at, which
\* the record of the model leaves out, is left out of the views)
get_workflow_status(workflow_id) ==
    IF workflow_id \in active_workflows
    THEN <<[workflow_id |-> workflow_id,
            status |-> workflow[workflow_id].status,
            current_agent |-> workflow[workflow_id].current_agent,
            agents_executed |-> workflow[workflow_id].agents_executed,
            is_active |-> TRUE]>>
    ELSE IF FindInHistory(workflow_history, workflow_id) # <<>>
    THEN LET record == FindInHistory(workflow_history, workflow_id)[1]
         IN <<[workflow_id |-> workflow_id,
               status |-> record.status,
               agents_executed |-> record.agents_executed,
               completed_at |-> record.completed_at,
               is_active |-> FALSE,
               result_available |-> record.result # <<>>]>>
    ELSE <<>>

\* (mutant) the whole list is taken
LastN_all(seq, n) == seq

\* seq[-n:]
LastN(seq, n) ==
    IF Len(seq) <= n THEN seq ELSE SubSeq(seq, Len(seq) - n + 1, Len(seq))

\* the entry of recent_workflows for a record (created_at is left out, as in
\* the record)
RecentEntry(record) ==
    [workflow_id |-> record.workflow_id,
     status |-> record.status,
     completed_at |-> record.completed_at]

\* what get_system_status returns in the current state (agent_status, which
\* reads the three agents, is left out)
get_system_status ==
    [active_workflows |-> Cardinality(active_workflows),
     max_concurrent_workflows |-> max_concurrent_workflows,
     total_workflows_processed |-> Len(workflow_history),
     recent_workflows |->
        [k \in DOMAIN LastN(workflow_history, RECENT_WORKFLOWS) |->
            RecentEntry(workflow[LastN(workflow_history, RECENT_WORKFLOWS)[k]])]]

\* an agent as BaseAgent.__init__ leaves it, with no execute_with_retry call
\* made on it
NoRetryCall ==
    /\ retry_pc = "idle"
    /\ self_agent_type = PROMPT_GENERATOR
    /\ max_retries = 0
    /\ attempt = 0
    /\ start_time = 0
    /\ is_busy = FALSE
    /\ last_activity = 0
    /\ log = <<>>
    /\ retry_returned = <<>>

\* no process_batch call has been made
NoBatchCall ==
    /\ batch_pc = "idle"
    /\ product_inputs = <<>>
    /\ max_concurrent = 0
    /\ batch_returned = <<>>

Init ==
    /\ pc = [w \in WorkflowIds |-> "idle"]
    /\ workflow = <<>>
    /\ active_workflows = {}
    /\ workflow_history = <<>>
    /\ clock = 0
    /\ responses = [w \in WorkflowIds |-> NoResponses]
    /\ calls = [w \in WorkflowIds |-> <<>>]
    /\ returned = [w \in WorkflowIds |-> <<>>]
    /\ cancel_returned = <<>>
    /\ compile_args = <<>>
    /\ compiled = <<>>
    /\ NoRetryCall
    /\ NoBatchCall

Next ==
    \/ \E w \in WorkflowIds : process_product(w, RequestOf(w))
    \/ \E w \in WorkflowIds :
         /\ pc[w] = PROMPT_GENERATOR
         /\ \E r \in PromptOutcomes(calls[w][1].input, StageErrors, StageTimes) :
                PromptReturns(w, r)
    \/ \E w \in WorkflowIds :
         /\ pc[w] = IMAGE_GENERATOR
         /\ \E r \in ImageOutcomes(calls[w][2].input, StageErrors, StageTimes) :
                ImageReturns(w, r)
    \/ \E w \in WorkflowIds :
         /\ pc[w] = VIDEO_GENERATOR
         /\ \E r \in VideoOutcomes(calls[w][3].input, StageErrors, StageTimes) :
                VideoReturns(w, r)
    \/ \E w \in WorkflowIds : cancel_workflow(w)

Spec == Init /\ [][Next]_vars

\* the stage call a workflow's task is waiting for returns
StageReturns(w) ==
    \/ /\ pc[w] = PROMPT_GENERATOR
       /\ \E r \in PromptOutcomes(calls[w][1].input, StageErrors, StageTimes) :
              PromptReturns(w, r)
    \/ /\ pc[w] = IMAGE_GENERATOR
       /\ \E r \in ImageOutcomes(calls[w][2].input, StageErrors, StageTimes) :
              ImageReturns(w, r)
    \/ /\ pc[w] = VIDEO_GENERATOR
       /\ \E r \in VideoOutcomes(calls[w][3].input, StageErrors, StageTimes) :
              VideoReturns(w, r)

\* the orchestrator when every stage call returns: the event loop resumes a
\* task whose awaited call has returned
FairSpec == Spec /\ \A w \in WorkflowIds : WF_vars(StageReturns(w))


\* ------------------------------------------- the result compiler on its own
\* _compile_workflow_results called directly, on every combination of stage
\* outcomes (also those no workflow run compiles: a failed prompt stage)
CompileErrors == {MaxRetriesError, FailedAfterError}
CompileTimes == 0 .. MaxElapsed

CompileArgs ==
    { [workflow_id |-> w, prompt_response |-> p, image_response |-> i,
       video_response |-> v] :
        w \in {1},
        p \in PromptOutcomes(RequestOf(1), CompileErrors, CompileTimes),
        i \in ImageOutcomes(ImageInput(AgentResponse(TRUE, <<PromptData(RequestOf(1))>>,
                                                     "None", 0, PROMPT_GENERATOR)),
                            CompileErrors, CompileTimes),
        v \in VideoOutcomes(PromptData(RequestOf(1))
                                @@ ("generated_images" :> <<"img1.png">>),
                            CompileErrors, CompileTimes) }

CompileInit ==
    /\ pc = [w \in WorkflowIds |-> "idle"]
    /\ workflow = <<>>
    /\ active_workflows = {}
    /\ workflow_history = <<>>
    /\ clock = 0
    /\ responses = [w \in WorkflowIds |-> NoResponses]
    /\ calls = [w \in WorkflowIds |-> <<>>]
    /\ returned = [w \in WorkflowIds |-> <<>>]
    /\ cancel_returned = <<>>
    /\ compile_args \in { <<a>> : a \in CompileArgs }
    /\ compiled = <<>>
    /\ NoRetryCall
    /\ NoBatchCall

\* one call of the compiler; the wall clock moves on between two calls
CompileCall ==
    /\ clock < MaxCompileCalls
    /\ compiled' = <<_compile_workflow_results(
                        compile_args[1].workflow_id, compile_args[1].prompt_response,
                        compile_args[1].image_response, compile_args[1].video_response,
                        clock)>>
    /\ clock' = clock + 1
    /\ UNCHANGED <<pc, workflow, active_workflows, workflow_history, responses,
                   calls, returned, cancel_returned, compile_args, retry_vars, batch_vars>>

CompileNext == CompileCall

CompileSpec == CompileInit /\ [][CompileNext]_vars


\* ------------------------------------------------- BaseAgent.execute_with_retry
\* One execute_with_retry call on one agent, whose process is any of: return a
\* successful response, return an unsuccessful response, raise an exception.
\* Texts are sequences of words, so that an error text built from another one
\* contains it; None is the empty sequence.

\* what process can put into an error text
ProcessErrors == { <<"service unavailable">>, <<"quota exceeded">> }

\* the exceptions process can raise, all of classes derived from Exception
ExceptionClasses == { "RuntimeError", "ValueError" }
Exceptions == [type : ExceptionClasses, message : ProcessErrors]

\* what process can return; it leaves execution_time and agent_type at the
\* defaults of AgentResponse
ProcessOutcomes ==
    { AgentResponse(TRUE, <<[content |-> "generated"]>>, <<>>, 0, "None") }
    \cup { AgentResponse(FALSE, <<>>, e, 0, "None") : e \in ProcessErrors }

\* the values of max_retries a caller passes: those of the workflow option,
\* from no attempt at all to the configured default
RetryOptions == 0 .. MAX_RETRIES

\* how long a process call can take
ProcessTimes == 0 .. MaxProcessTime

AgentTypes == { PROMPT_GENERATOR, IMAGE_GENERATOR, VIDEO_GENERATOR }

\* an entry of the log
Attempted(k, outcome, error, data) ==
    [kind |-> "attempt", attempt |-> k, outcome |-> outcome, error |-> error,
     data |-> data, delay |-> 0]
Slept(k, delay) ==
    [kind |-> "sleep", attempt |-> k, outcome |-> "None", error |-> <<>>,
     data |-> <<>>, delay |-> delay]

\* (mutant) the handler catches one class of exception only
Catches_ValueError_only(exception) == exception.type = "ValueError"

\* except Exception as e
Catches(exception) == exception.type \in ExceptionClasses

\* (mutant) the loop makes one iteration more
LoopContinues_once_more(k, n) == k + 1 <= n

\* for attempt in range(max_retries): there is an iteration after iteration k
LoopContinues(k, n) == k + 1 < n

\* if attempt == max_retries - 1
IsLastAttempt(k, n) == k = n - 1

\* the delay of asyncio.sleep(2 ** attempt)
Backoff(k) == 2 ^ k

\* response.execution_time = execution_time; response.agent_type = self.agent_type
Stamp(response, execution_time, agent_type) ==
    [response EXCEPT !.execution_time = execution_time, !.agent_type = agent_type]

\* f"Failed after {max_retries} attempts: {str(e)}"
FailedAfter(n, exception) ==
    <<"Failed after", ToString(n), "attempts:">> \o exception.message

\* the response after the loop
MaxRetriesExceeded(execution_time, agent_type) ==
    AgentResponse(FALSE, <<>>, <<MaxRetriesError>>, execution_time, agent_type)

\* the call, up to its first suspension point
execute_with_retry(agent_type, n) ==
    /\ retry_pc = "idle"
    /\ self_agent_type' = agent_type
    /\ max_retries' = n
    /\ start_time' = clock
    /\ attempt' = 0
    /\ IF n > 0
       THEN /\ is_busy' = TRUE
            /\ retry_pc' = "process"
            /\ retry_returned' = retry_returned
       ELSE /\ is_busy' = FALSE
            /\ retry_pc' = "returned"
            /\ retry_returned' = <<MaxRetriesExceeded(0, agent_type)>>
    /\ UNCHANGED <<clock, last_activity, log, orchestrator_vars>>

\* process returns a response after d seconds: the rest of the try block and
\* the code up to the next suspension point or return
ProcessReturns(response, d) ==
    /\ retry_pc = "process"
    /\ clock' = clock + d
    /\ last_activity' = clock'
    /\ log' = Append(log, Attempted(attempt,
                                    IF response.success THEN "success" ELSE "failure",
                                    response.error, response.data))
    /\ LET execution_time == clock' - start_time
       IN IF response.success
          THEN /\ is_busy' = FALSE
               /\ retry_returned' = <<Stamp(response, execution_time, self_agent_type)>>
               /\ retry_pc' = "returned"
               /\ attempt' = attempt
          ELSE IF LoopContinues(attempt, max_retries)
          THEN /\ is_busy' = TRUE
               /\ retry_returned' = retry_returned
               /\ retry_pc' = "process"
               /\ attempt' = attempt + 1
          ELSE /\ is_busy' = FALSE
               /\ retry_returned' = <<MaxRetriesExceeded(execution_time, self_agent_type)>>
               /\ retry_pc' = "returned"
               /\ attempt' = attempt
    /\ UNCHANGED <<self_agent_type, max_retries, start_time, orchestrator_vars>>

\* process raises an exception after d seconds: the except block up to the
\* sleep or the return
ProcessRaises(exception, d) ==
    /\ retry_pc = "process"
    /\ clock' = clock + d
    /\ log' = Append(log, Attempted(attempt, "raise", exception.message, <<>>))
    /\ IF ~Catches(exception)
       THEN /\ retry_pc' = "raised"
            /\ UNCHANGED <<is_busy, retry_returned>>
       ELSE IF IsLastAttempt(attempt, max_retries)
       THEN /\ is_busy' = FALSE
            /\ retry_returned' =
                    <<AgentResponse(FALSE, <<>>, FailedAfter(max_retries, exception),
                                    clock' - start_time, self_agent_type)>>
            /\ retry_pc' = "returned"
       ELSE /\ retry_pc' = "sleep"
            /\ UNCHANGED <<is_busy, retry_returned>>
    /\ UNCHANGED <<self_agent_type, max_retries, start_time, attempt,
                   last_activity, orchestrator_vars>>

\* the backoff sleep ends, after its delay and no later (the least asyncio.sleep
\* allows), and the next iteration runs up to its process call
SleepReturns ==
    /\ retry_pc = "sleep"
    /\ clock' = clock + Backoff(attempt)
    /\ log' = Append(log, Slept(attempt, Backoff(attempt)))
    /\ IF LoopContinues(attempt, max_retries)
       THEN /\ attempt' = attempt + 1
            /\ is_busy' = TRUE
            /\ retry_pc' = "process"
            /\ retry_returned' = retry_returned
       ELSE /\ attempt' = attempt
            /\ is_busy' = FALSE
            /\ retry_pc' = "returned"
            /\ retry_returned' =
                    <<MaxRetriesExceeded(clock' - start_time, self_agent_type)>>
    /\ UNCHANGED <<self_agent_type, max_retries, start_time, last_activity,
                   orchestrator_vars>>

RetryNext ==
    \/ \E agent_type \in AgentTypes, n \in RetryOptions :
            execute_with_retry(agent_type, n)
    \/ \E response \in ProcessOutcomes, d \in ProcessTimes :
            ProcessReturns(response, d)
    \/ \E exception \in Exceptions, d \in ProcessTimes :
            ProcessRaises(exception, d)
    \/ SleepReturns

RetrySpec == Init /\ [][RetryNext]_vars

\* the call when process and sleep return: the event loop resumes the task
RetryFairSpec == RetrySpec /\ WF_vars(RetryNext)

\* ------------------------------------------------------ a shared agent
\* Several execute_with_retry calls on one agent, as made by the workflows
\* that run at the same time: the orchestrator has one agent of each type.
\* The variables of a call (retry_pc, max_retries, attempt, start_time,
\* retry_returned) are kept per caller here, the fields of the agent
\* (is_busy, last_activity) are the agent's. In these runs process returns,
\* successfully or not, and does not raise, and every caller passes the
\* configured number of retries; the runs end within MaxProcessTime seconds.

Callers == WorkflowIds

SharedInit ==
    /\ pc = [w \in WorkflowIds |-> "idle"]
    /\ workflow = <<>>
    /\ active_workflows = {}
    /\ workflow_history = <<>>
    /\ clock = 0
    /\ responses = [w \in WorkflowIds |-> NoResponses]
    /\ calls = [w \in WorkflowIds |-> <<>>]
    /\ returned = [w \in WorkflowIds |-> <<>>]
    /\ cancel_returned = <<>>
    /\ compile_args = <<>>
    /\ compiled = <<>>
    /\ NoBatchCall
    /\ retry_pc = [c \in Callers |-> "idle"]
    /\ self_agent_type \in AgentTypes
    /\ max_retries = [c \in Callers |-> 0]
    /\ attempt = [c \in Callers |-> 0]
    /\ start_time = [c \in Callers |-> 0]
    /\ is_busy = FALSE
    /\ last_activity = 0
    /\ log = <<>>
    /\ retry_returned = [c \in Callers |-> <<>>]

\* caller c makes its call, which runs up to its first suspension point
SharedCall(c, n) ==
    /\ retry_pc[c] = "idle"
    /\ n > 0
    /\ max_retries' = [max_retries EXCEPT ![c] = n]
    /\ start_time' = [start_time EXCEPT ![c] = clock]
    /\ attempt' = [attempt EXCEPT ![c] = 0]
    /\ is_busy' = TRUE
    /\ retry_pc' = [retry_pc EXCEPT ![c] = "process"]
    /\ UNCHANGED <<clock, self_agent_type, last_activity, log, retry_returned,
                   orchestrator_vars>>

\* the process call of caller c returns a response after d seconds: the rest
\* of the try block and the code up to the next suspension point or return
SharedProcessReturns(c, response, d) ==
    /\ retry_pc[c] = "process"
    /\ clock + d <= MaxProcessTime
    /\ clock' = clock + d
    /\ last_activity' = clock'
    /\ LET execution_time == clock' - start_time[c]
       IN IF response.success
          THEN /\ is_busy' = FALSE
               /\ retry_returned' = [retry_returned EXCEPT
                        ![c] = <<Stamp(response, execution_time, self_agent_type)>>]
               /\ retry_pc' = [retry_pc EXCEPT ![c] = "returned"]
               /\ attempt' = attempt
          ELSE IF LoopContinues(attempt[c], max_retries[c])
          THEN /\ is_busy' = TRUE
               /\ retry_returned' = retry_returned
               /\ retry_pc' = retry_pc
               /\ attempt' = [attempt EXCEPT ![c] = @ + 1]
          ELSE /\ is_busy' = FALSE
               /\ retry_returned' = [retry_returned EXCEPT
                        ![c] = <<MaxRetriesExceeded(execution_time, self_agent_type)>>]
               /\ retry_pc' = [retry_pc EXCEPT ![c] = "returned"]
               /\ attempt' = attempt
    /\ UNCHANGED <<self_agent_type, max_retries, start_time, log, orchestrator_vars>>

SharedNext ==
    \/ \E c \in Callers : SharedCall(c, MAX_RETRIES)
    \/ \E c \in Callers, response \in ProcessOutcomes, d \in ProcessTimes :
            SharedProcessReturns(c, response, d)

SharedAgentSpec == SharedInit /\ [][SharedNext]_vars

\* ------------------------------------- a workflow with its image stage retried
\* One workflow run in which the execute_with_retry call of the image stage is
\* gone through attempt by attempt; the prompt and the video stage return
\* their terminal responses as in Spec.

\* the workflow that is run
RetriedWorkflow == 1

\* what the image agent's process can return
ImageProcessOutcomes(image_input) ==
    { AgentResponse(TRUE, <<ImageData(imgs, image_input.image_count)>>, <<>>, 0, "None")
        : imgs \in ImageLists }
    \cup { AgentResponse(FALSE, <<>>, e, 0, "None") : e \in ProcessErrors }

\* the image agent's execute_with_retry is entered
ImageStageCalls(w, n) ==
    /\ pc[w] = IMAGE_GENERATOR
    /\ execute_with_retry(IMAGE_GENERATOR, n)

\* an attempt of the image agent returns
ImageProcessReturns(w, response, d) ==
    /\ pc[w] = IMAGE_GENERATOR
    /\ ProcessReturns(response, d)

\* the image agent's execute_with_retry has returned: _execute_workflow goes on
\* with its response
ImageStageReturns(w) ==
    /\ pc[w] = IMAGE_GENERATOR
    /\ retry_pc = "returned"
    /\ ImageReturns(w, retry_returned[1])

WorkflowRetryNext ==
    \/ process_product(RetriedWorkflow, RequestOf(RetriedWorkflow))
    \/ /\ pc[RetriedWorkflow] = PROMPT_GENERATOR
       /\ \E r \in PromptOutcomes(calls[RetriedWorkflow][1].input, StageErrors, StageTimes) :
              PromptReturns(RetriedWorkflow, r)
    \/ \E n \in RetryOptions : ImageStageCalls(RetriedWorkflow, n)
    \/ /\ pc[RetriedWorkflow] = IMAGE_GENERATOR
       /\ \E response \in ImageProcessOutcomes(calls[RetriedWorkflow][2].input),
             d \in ProcessTimes :
              ImageProcessReturns(RetriedWorkflow, response, d)
    \/ /\ pc[RetriedWorkflow] = IMAGE_GENERATOR
       /\ \E exception \in Exceptions, d \in ProcessTimes : ProcessRaises(exception, d)
    \/ /\ pc[RetriedWorkflow] = IMAGE_GENERATOR
       /\ SleepReturns
    \/ ImageStageReturns(RetriedWorkflow)
    \/ /\ pc[RetriedWorkflow] = VIDEO_GENERATOR
       /\ \E r \in VideoOutcomes(calls[RetriedWorkflow][3].input, StageErrors, StageTimes) :
              VideoReturns(RetriedWorkflow, r)

WorkflowRetrySpec == Init /\ [][WorkflowRetryNext]_vars

\* --------------------------------------------------------- process_batch
\* One process_batch call. Its item number i is the i-th process_product call
\* and so gets workflow id i: the tasks of gather start in the order of the
\* list and the semaphore wakes its waiters in that order.

\* the batches a caller passes: the first n requests, n from 0 on
Batches == { [i \in 1 .. n |-> RequestOf(i)] : n \in 0 .. NumWorkflows }

\* the values of batch_options['max_concurrent'] a caller passes
MaxConcurrentOptions == 1 .. NumWorkflows

\* the items that are inside process_product: they hold the semaphore
Inside == { w \in DOMAIN product_inputs : pc[w] \notin {"idle", "returned"} }

\* (mutant) the semaphore is never locked
Locked_never(inside, value) == FALSE

\* (mutant) the semaphore lets one task more in
Locked_one_late(inside, value) == inside > value

\* asyncio.Semaphore(max_concurrent).locked() with so many tasks inside
Locked(inside, value) == inside >= value

\* the call, up to gather
process_batch(inputs, n) ==
    /\ batch_pc = "idle"
    /\ \A w \in WorkflowIds : pc[w] = "idle"
    /\ product_inputs' = inputs
    /\ max_concurrent' = n
    /\ batch_pc' = "gather"
    /\ UNCHANGED <<pc, workflow, active_workflows, workflow_history, clock,
                   responses, calls, returned, cancel_returned, compile_args,
                   compiled, retry_vars, batch_returned>>

\* a task of the batch gets the semaphore and enters process_product
process_single_product(w) ==
    /\ batch_pc = "gather"
    /\ w \in DOMAIN product_inputs
    /\ ~Locked(Cardinality(Inside), max_concurrent)
    /\ process_product(w, product_inputs[w])

\* the stage call an item of the batch is waiting for returns
BatchStageReturns(w) ==
    /\ batch_pc = "gather"
    /\ StageReturns(w)

\* isinstance(result, Exception): what gather hands back for a task is the
\* mapping process_product returned or the exception the task raised
IsException(result) == "exception" \in DOMAIN result

\* result.get('success') or result.get('partial_success')
IsSuccessful(result) ==
    /\ ~IsException(result)
    /\ Get(result, "success", FALSE) \/ Get(result, "partial_success", FALSE)

\* the entry of the failures list for item i
FailedEntry(inputs, results, i) ==
    IF IsException(results[i])
    THEN [product_id |-> inputs[i].product_id, error |-> results[i].exception]
    ELSE results[i]

RECURSIVE SuccessfulResults(_, _)
\* the successful results among the first i results, in their order
SuccessfulResults(results, i) ==
    IF i = 0 THEN <<>>
    ELSE SuccessfulResults(results, i - 1)
         \o (IF IsSuccessful(results[i]) THEN <<results[i]>> ELSE <<>>)

RECURSIVE FailedResults(_, _, _)
\* the failure entries for the first i results, in their order
FailedResults(inputs, results, i) ==
    IF i = 0 THEN <<>>
    ELSE FailedResults(inputs, results, i - 1)
         \o (IF IsSuccessful(results[i]) THEN <<>>
             ELSE <<FailedEntry(inputs, results, i)>>)

\* len(successful_results) / len(product_inputs) * 100 raises
\* ZeroDivisionError for an empty list
SuccessRateRaises(inputs) == Len(inputs) = 0

\* the quotient, kept as a fraction
SuccessRate(successful, inputs) ==
    [numerator |-> Len(successful) * 100, denominator |-> Len(inputs)]

\* (mutant) the failures are left out of the summary
BatchSummary_no_failures(inputs, results, now) ==
    [total_products |-> Len(inputs),
     successful_count |-> Len(SuccessfulResults(results, Len(results))),
     failed_count |-> 0,
     success_rate |-> SuccessRate(SuccessfulResults(results, Len(results)), inputs),
     results |-> SuccessfulResults(results, Len(results)),
     failures |-> <<>>,
     timestamp |-> now]

\* (mutant) the failures are listed from the last item to the first
BatchSummary_failures_reversed(inputs, results, now) ==
    [total_products |-> Len(inputs),
     successful_count |-> Len(SuccessfulResults(results, Len(results))),
     failed_count |-> Len(FailedResults(inputs, results, Len(results))),
     success_rate |-> SuccessRate(SuccessfulResults(results, Len(results)), inputs),
     results |-> SuccessfulResults(results, Len(results)),
     failures |->
        [k \in DOMAIN FailedResults(inputs, results, Len(results)) |->
            FailedResults(inputs, results, Len(results))[
                Len(FailedResults(inputs, results, Len(results))) + 1 - k]],
     timestamp |-> now]

\* the summary (the batch id is left out)
BatchSummary(inputs, results, now) ==
    [total_products |-> Len(inputs),
     successful_count |-> Len(SuccessfulResults(results, Len(results))),
     failed_count |-> Len(FailedResults(inputs, results, Len(results))),
     success_rate |-> SuccessRate(SuccessfulResults(results, Len(results)), inputs),
     results |-> SuccessfulResults(results, Len(results)),
     failures |-> FailedResults(inputs, results, Len(results)),
     timestamp |-> now]

\* gather returns, every task having returned: the rest of process_batch
GatherReturns ==
    /\ batch_pc = "gather"
    /\ \A w \in DOMAIN product_inputs : returned[w] # <<>>
    /\ LET results == [w \in DOMAIN product_inputs |-> returned[w][1]]
       IN IF SuccessRateRaises(product_inputs)
          THEN /\ batch_pc' = "raised"
               /\ batch_returned' = batch_returned
          ELSE /\ batch_pc' = "returned"
               /\ batch_returned' = <<BatchSummary(product_inputs, results, clock)>>
    /\ UNCHANGED <<pc, workflow, active_workflows, workflow_history, clock,
                   responses, calls, returned, cancel_returned, compile_args,
                   compiled, retry_vars, product_inputs, max_concurrent>>

BatchNext ==
    \/ \E inputs \in Batches, n \in MaxConcurrentOptions : process_batch(inputs, n)
    \/ \E w \in WorkflowIds : process_single_product(w)
    \/ \E w \in WorkflowIds : BatchStageReturns(w)
    \/ GatherReturns

BatchSpec == Init /\ [][BatchNext]_vars

\* ------------------------------------------------------ an aborted task
\* The orchestrator with callers that abort the task running process_product
\* (task.cancel(), or asyncio.wait_for running into its timeout) while a stage
\* call is in flight.

\* the task of workflow w is cancelled at the await it is suspended in:
\* CancelledError is raised there and, being a BaseException and no Exception,
\* passes the except clauses of execute_with_retry, _execute_workflow and
\* process_product, none of which is entered
TaskAborted(w) ==
    /\ pc[w] \in {PROMPT_GENERATOR, IMAGE_GENERATOR, VIDEO_GENERATOR}
    /\ pc' = [pc EXCEPT ![w] = "aborted"]
    /\ UNCHANGED <<workflow, active_workflows, workflow_history, clock, responses,
                   calls, returned, cancel_returned, compile_args, compiled,
                   retry_vars, batch_vars>>

AbortNext ==
    \/ Next
    \/ \E w \in WorkflowIds : TaskAborted(w)

AbortSpec == Init /\ [][AbortNext]_vars

\* ------------------------------------------------------- a long history
\* The orchestrator over a run long enough for the history to outgrow the
\* entries get_system_status lists. To keep such a run small the calls follow
\* each other (a call is made when the one before it has returned) and the
\* environment is fixed: every third prompt stage fails, the other stage calls
\* succeed, and the caller may cancel the workflows numbered 2, 5, 8, ...
\* during their prompt stage.

HistoryIds == 1 .. NumHistoryWorkflows

HistoryInit ==
    /\ pc = [w \in HistoryIds |-> "idle"]
    /\ workflow = <<>>
    /\ active_workflows = {}
    /\ workflow_history = <<>>
    /\ clock = 0
    /\ responses = [w \in HistoryIds |-> NoResponses]
    /\ calls = [w \in HistoryIds |-> <<>>]
    /\ returned = [w \in HistoryIds |-> <<>>]
    /\ cancel_returned = <<>>
    /\ compile_args = <<>>
    /\ compiled = <<>>
    /\ NoRetryCall
    /\ NoBatchCall

\* the next call is made
NextProduct(w) ==
    /\ \A v \in HistoryIds : v < w => pc[v] = "returned"
    /\ process_product(w, RequestOf(w))

\* the stage call of a workflow returns what the environment has for it
HistoryStageReturns(w) ==
    \/ /\ pc[w] = PROMPT_GENERATOR
       /\ \E r \in PromptOutcomes(calls[w][1].input, StageErrors, StageTimes) :
              /\ r.success = (w % 3 # 0)
              /\ PromptReturns(w, r)
    \/ /\ pc[w] = IMAGE_GENERATOR
       /\ \E r \in ImageOutcomes(calls[w][2].input, StageErrors, StageTimes) :
              /\ r.success
              /\ Len(r.data[1].generated_images) = 1
              /\ ImageReturns(w, r)
    \/ /\ pc[w] = VIDEO_GENERATOR
       /\ \E r \in VideoOutcomes(calls[w][3].input, StageErrors, StageTimes) :
              /\ r.success
              /\ VideoReturns(w, r)

\* the caller cancels a workflow during its prompt stage
CancelDuringPrompt(w) ==
    /\ w % 3 = 2
    /\ pc[w] = PROMPT_GENERATOR
    /\ w \in active_workflows
    /\ cancel_workflow(w)

HistoryNext ==
    \/ \E w \in HistoryIds : NextProduct(w)
    \/ \E w \in HistoryIds : HistoryStageReturns(w)
    \/ \E w \in HistoryIds : CancelDuringPrompt(w)

HistorySpec == HistoryInit /\ [][HistoryNext]_vars


\* ------------------------------------------------------------------ claims
\* vocabulary of the claims
InHistory(w) == \E k \in DOMAIN workflow_history : workflow_history[k] = w
Submitted == { w \in WorkflowIds : pc[w] # "idle" }
HasReturned(w) == returned[w] # <<>>
Rejected(w) ==
    /\ HasReturned(w)
    /\ "error" \in DOMAIN returned[w][1]
    /\ returned[w][1].error = CapacityError
Cancelled(w) == w \in DOMAIN workflow /\ workflow[w].error = CancelError
PromptDone(w) == responses[w].prompt # <<>>
ImageDone(w) == responses[w].image # <<>>
VideoDone(w) == responses[w].video # <<>>
PromptOk(w) == PromptDone(w) /\ responses[w].prompt[1].success
ImageOk(w) == ImageDone(w) /\ responses[w].image[1].success
VideoOk(w) == VideoDone(w) /\ responses[w].video[1].success
CallsTo(w, agent) == { k \in DOMAIN calls[w] : calls[w][k].agent = agent }

\* the active set is within the ceiling, and overlapping submissions beyond it
\* leave the ceiling's number running and the others rejected
C1_ActiveBounded ==
    /\ Cardinality(active_workflows) <= max_concurrent_workflows
    /\ (Cardinality(Submitted) >= max_concurrent_workflows + 1 /\ workflow_history = <<>>)
        => /\ Cardinality(active_workflows) = max_concurrent_workflows
           /\ \A w \in active_workflows : workflow[w].status = RUNNING
           /\ \E w \in Submitted : Rejected(w)

\* a submission is admitted exactly when the active set is below the ceiling
C1_AdmitStep ==
    \A w \in WorkflowIds :
        (pc[w] = "idle" /\ pc'[w] # "idle") =>
            IF Cardinality(active_workflows) < max_concurrent_workflows
            THEN /\ active_workflows' = active_workflows \cup {w}
                 /\ workflow'[w].status = RUNNING
            ELSE /\ active_workflows' = active_workflows
                 /\ returned'[w] # <<>>
                 /\ returned'[w][1].success = FALSE
                 /\ returned'[w][1].error = CapacityError

\* C1: a workflow is admitted only if the active set holds fewer than
\* max_concurrent_workflows records at its capacity check, so the active set
\* never holds more than max_concurrent_workflows; and when
\* max_concurrent_workflows + 1 submissions overlap (none has ended yet),
\* exactly max_concurrent_workflows are running and at least one is rejected.
C1_Admission == []C1_ActiveBounded /\ [][C1_AdmitStep]_vars

C1_Witness ==
    /\ Cardinality(Submitted) = max_concurrent_workflows + 1
    /\ workflow_history = <<>>
    /\ Cardinality(active_workflows) = max_concurrent_workflows
    /\ \E w \in Submitted : Rejected(w)

\* C2: once a workflow record has been moved to history, none of its fields
\* changes again (the claim as stated; the code violates it).
C2_HistoryImmutable ==
    [][\A w \in WorkflowIds : InHistory(w) => workflow'[w] = workflow[w]]_vars

\* what a step that returns from cancel_workflow does
C3_CancelStep ==
    cancel_returned' # cancel_returned =>
        LET id == cancel_returned'[1].workflow_id
            ret == cancel_returned'[1].result
        IN /\ ret = (id \in active_workflows)
           /\ (Cancelled(id) \/ InHistory(id) \/ id \notin DOMAIN workflow) => ret = FALSE
           /\ ret = FALSE => UNCHANGED <<workflow, active_workflows, workflow_history>>
           /\ ret = TRUE =>
                /\ active_workflows' = active_workflows \ {id}
                /\ workflow_history' = Append(workflow_history, id)
                /\ workflow'[id].status = FAILED
                /\ workflow'[id].error = CancelError
                /\ workflow'[id].result = <<>>

\* C3: cancel_workflow(id) returns false and changes nothing when id is not in
\* the active set; when id is active it returns true, removes the record from
\* the active set and appends it to history with status failed and the
\* cancellation error; a cancel on an already cancelled id returns false.
C3_Cancel == [][C3_CancelStep]_vars

\* a second cancel of a cancelled workflow has returned false
C3_Witness ==
    /\ cancel_returned # <<>>
    /\ cancel_returned[1].result = FALSE
    /\ Cancelled(cancel_returned[1].workflow_id)

\* C4: the compiled result's partial_success equals
\* prompt.success AND NOT (image.success AND video.success) (the claim as
\* stated; the code violates it).
C4_PartialSuccessFormula ==
    \A w \in WorkflowIds :
        (w \in DOMAIN workflow /\ workflow[w].result # <<>>) =>
            workflow[w].result[1].partial_success
                = (PromptOk(w) /\ ~(ImageOk(w) /\ VideoOk(w)))

\* C5: the compiled result's success flag is true exactly when the three
\* outcomes are all successful, and then partial_success is false and the
\* prompt, image and video sections are all present.
C5_OverallSuccess ==
    compiled # <<>> =>
        LET a == compile_args[1]
            r == compiled[1]
        IN /\ r.success = (a.prompt_response.success /\ a.image_response.success
                            /\ a.video_response.success)
           /\ r.success =>
                /\ r.partial_success = FALSE
                /\ {"generated_prompts", "generated_images", "generated_video"}
                        \subseteq DOMAIN r

C5_Witness == compiled # <<>> /\ compiled[1].success


C7_PromptFailureFailsWorkflow ==
    \A w \in WorkflowIds :
        (PromptDone(w) /\ ~PromptOk(w)) =>
            /\ pc[w] = "returned"
            /\ CallsTo(w, IMAGE_GENERATOR) = {}
            /\ CallsTo(w, VIDEO_GENERATOR) = {}
            /\ InHistory(w)
            /\ workflow[w].status = FAILED
            /\ workflow[w].error # "None"
            /\ HasReturned(w)
            /\ returned[w][1].success = FALSE

C7_Witness ==
    \E w \in WorkflowIds :
        /\ PromptDone(w) /\ ~PromptOk(w)
        /\ ~Cancelled(w)
        /\ workflow[w].status = FAILED

\* C8: for every request whose prompt stage fails, the returned result has
\* success false and partial_success false and no image or video section, and
\* the workflow's record lists exactly one executed stage, the prompt stage
\* (the claim as stated; the code violates it).
C8_PromptFailureResult ==
    \A w \in WorkflowIds :
        (PromptDone(w) /\ ~PromptOk(w)) =>
            /\ HasReturned(w)
            /\ returned[w][1].success = FALSE
            /\ Get(returned[w][1], "partial_success", FALSE) = FALSE
            /\ "generated_images" \notin DOMAIN returned[w][1]
            /\ "generated_video" \notin DOMAIN returned[w][1]
            /\ Len(workflow[w].agents_executed) = 1
            /\ workflow[w].agents_executed[1].agent = PROMPT_GENERATOR

\* C9: when the prompt and image stages succeed and the video stage fails, the
\* compiled result has success false and partial_success true, includes the
\* image section, omits the video section, and its error list has exactly one
\* entry, which is the video generation's; it is what the caller receives
\* unless the workflow was cancelled.
C9_VideoFailureResult ==
    \A w \in WorkflowIds :
        (PromptOk(w) /\ ImageOk(w) /\ VideoDone(w) /\ ~VideoOk(w)) =>
            /\ workflow[w].result # <<>>
            /\ LET r == workflow[w].result[1]
               IN /\ r.success = FALSE
                  /\ r.partial_success = TRUE
                  /\ "generated_images" \in DOMAIN r
                  /\ r.generated_images = responses[w].image[1].data[1].generated_images
                  /\ "generated_video" \notin DOMAIN r
                  /\ "errors" \in DOMAIN r
                  /\ Len(r.errors) = 1
                  /\ r.errors[1] = <<"Video generation", responses[w].video[1].error>>
                  /\ ~Cancelled(w) => returned[w] = <<r>>

C9_Witness ==
    \E w \in WorkflowIds :
        /\ PromptOk(w) /\ ImageOk(w) /\ VideoDone(w) /\ ~VideoOk(w)
        /\ ~Cancelled(w)
        /\ HasReturned(w)
        /\ returned[w][1].partial_success

\* C10: once the prompt stage has succeeded and the image stage has returned,
\* whatever its outcome, the video stage has been invoked exactly once, with
\* an empty generated-images list if the image stage failed and with exactly
\* the images the image stage returned if it succeeded; before that the video
\* stage is not invoked.
C10_VideoAfterImage ==
    \A w \in WorkflowIds :
        /\ ~ImageDone(w) => CallsTo(w, VIDEO_GENERATOR) = {}
        /\ (PromptOk(w) /\ ImageDone(w)) =>
            /\ Cardinality(CallsTo(w, VIDEO_GENERATOR)) = 1
            /\ \A k \in CallsTo(w, VIDEO_GENERATOR) :
                calls[w][k].input.generated_images
                    = (IF ImageOk(w)
                       THEN responses[w].image[1].data[1].generated_images
                       ELSE <<>>)

\* the image stage failed and the video stage was invoked without images
C10_Witness ==
    \E w \in WorkflowIds :
        /\ PromptOk(w) /\ ImageDone(w) /\ ~ImageOk(w)
        /\ \E k \in CallsTo(w, VIDEO_GENERATOR) :
                calls[w][k].input.generated_images = <<>>

\* the order _execute_workflow calls the agents in
StageOrder == <<PROMPT_GENERATOR, IMAGE_GENERATOR, VIDEO_GENERATOR>>
\* the positions of a task that is waiting for a stage call to return
InStage == { StageOrder[k] : k \in DOMAIN StageOrder }
\* how many of a workflow's stage calls have returned
NumReturned(w) == B2N(PromptDone(w)) + B2N(ImageDone(w)) + B2N(VideoDone(w))

\* C11: within one workflow the stages are called in the order prompt, image,
\* video: the k-th call is to the k-th agent, so no stage is called twice; a
\* stage is called only after the one before it has returned; and at most one
\* call of the workflow is in flight at any time.
C11_StagesInOrder ==
    \A w \in WorkflowIds :
        /\ Len(calls[w]) <= Len(StageOrder)
        /\ \A k \in DOMAIN calls[w] : calls[w][k].agent = StageOrder[k]
        /\ Len(calls[w]) >= 2 => PromptDone(w)
        /\ Len(calls[w]) >= 3 => ImageDone(w)
        /\ Len(calls[w]) - NumReturned(w) \in {0, 1}
        /\ Len(calls[w]) - NumReturned(w) = 1 <=> pc[w] \in InStage

\* a workflow has gone through its three stages
C11_Witness ==
    \E w \in WorkflowIds :
        /\ Len(calls[w]) = 3
        /\ VideoDone(w)

\* a rejected submission has returned a failure, no stage of it was ever called
\* and it is in neither the active set nor the history
C12_RejectedState ==
    \A w \in WorkflowIds :
        Rejected(w) =>
            /\ pc[w] = "returned"
            /\ returned[w][1].success = FALSE
            /\ calls[w] = <<>>
            /\ responses[w] = NoResponses
            /\ w \notin active_workflows
            /\ ~InHistory(w)

\* the step of a submission that finds the active set full
C12_RejectStep ==
    \A w \in WorkflowIds :
        (/\ pc[w] = "idle"
         /\ pc'[w] # "idle"
         /\ Cardinality(active_workflows) >= max_concurrent_workflows) =>
            /\ pc'[w] = "returned"
            /\ returned'[w] = <<FailureResult(w, CapacityError, clock)>>
            /\ calls' = calls
            /\ active_workflows' = active_workflows
            /\ workflow_history' = workflow_history

\* C12: a submission that finds the active set full is rejected at once: the
\* call returns success=false with the capacity error in the same step, no
\* stage is called for it then or later (it is not queued or retried), and
\* neither the active set nor the history is changed by it.
C12_Rejection == []C12_RejectedState /\ [][C12_RejectStep]_vars

\* a submission was rejected and the workflow that filled the active set has
\* since finished and left the set
C12_Witness ==
    \E w \in WorkflowIds :
        /\ Rejected(w)
        /\ active_workflows = {}
        /\ workflow_history # <<>>

\* no call has raised, and what a call has returned is a mapping with a
\* boolean success flag
C13_NeverRaises ==
    \A w \in WorkflowIds :
        /\ pc[w] # "raised"
        /\ HasReturned(w) =>
            /\ pc[w] = "returned"
            /\ "success" \in DOMAIN returned[w][1]
            /\ returned[w][1].success \in BOOLEAN

\* every call that was made returns
C13_AlwaysReturns ==
    \A w \in WorkflowIds : (pc[w] # "idle") ~> HasReturned(w)

\* C13: provided each stage call returns, every process_product call returns,
\* on every path (all stages run, prompt failure, capacity rejection, fault
\* after a cancellation), a mapping with a boolean success flag, and never
\* raises.
C13_StructuredOutcome == []C13_NeverRaises /\ C13_AlwaysReturns

\* every call has returned: one was rejected and one returned after its
\* workflow was cancelled and its stages had run
C13_Witness ==
    /\ \A w \in WorkflowIds : HasReturned(w)
    /\ \E w \in WorkflowIds : Rejected(w)
    /\ \E w \in WorkflowIds : Cancelled(w) /\ VideoDone(w)

\* the workflow executions: the tasks between the call of the prompt stage and
\* the return of their last stage
Executing == { w \in WorkflowIds : pc[w] \in InStage }

\* C14: at any time at most max_concurrent_workflows workflow executions
\* exist, also when admitted workflows were cancelled while a stage was in
\* flight (the claim as stated; a cancelled workflow's task goes on executing
\* while its place in the active set is given to another).
C14_ExecutionsBounded ==
    Cardinality(Executing) <= max_concurrent_workflows

\* C14 (amended): the executions of workflows that were not cancelled are
\* exactly the active set, which holds at most max_concurrent_workflows
\* records; the executions of cancelled workflows are not counted by the
\* ceiling, so all executions together number at most
\* max_concurrent_workflows plus the cancelled workflows still executing.
C14_ActiveExecutionsBounded ==
    /\ { w \in Executing : ~Cancelled(w) } = active_workflows
    /\ Cardinality(active_workflows) <= max_concurrent_workflows
    /\ Cardinality(Executing) <=
            max_concurrent_workflows
            + Cardinality({ w \in Executing : Cancelled(w) })

\* the active set is full while a cancelled workflow is still executing
C14_Witness ==
    /\ Cardinality(active_workflows) = max_concurrent_workflows
    /\ Cardinality(Executing) = max_concurrent_workflows + 1
    /\ \E w \in Executing : Cancelled(w)

\* C15: a process_product call whose workflow was cancelled while a stage was
\* in flight returns success=false to the submitter, never the compiled
\* success or partial-success result of its stages.
C15_CancelledReturnsFailure ==
    \A w \in WorkflowIds :
        (Cancelled(w) /\ HasReturned(w)) =>
            /\ returned[w][1].success = FALSE
            /\ "partial_success" \notin DOMAIN returned[w][1]
            /\ "execution_summary" \notin DOMAIN returned[w][1]

\* a workflow was cancelled, its three stages then succeeded, the compiled
\* result is a success and the call has returned a failure
C15_Witness ==
    \E w \in WorkflowIds :
        /\ Cancelled(w)
        /\ PromptOk(w) /\ ImageOk(w) /\ VideoOk(w)
        /\ workflow[w].result # <<>>
        /\ workflow[w].result[1].success
        /\ HasReturned(w)
        /\ ~returned[w][1].success

\* vocabulary of the claims about execute_with_retry
AttemptsLogged == { i \in DOMAIN log : log[i].kind = "attempt" }
FailedAttempts == { i \in AttemptsLogged : log[i].outcome # "success" }
HasRetryReturned == retry_returned # <<>>

\* C16: when attempt k raises or returns an unsuccessful response and attempts
\* remain, execute_with_retry sleeps 2^k seconds and then makes the next
\* attempt (the claim as stated; the code does not sleep after an attempt that
\* returned an unsuccessful response).
C16_BackoffAfterFailure ==
    \A i \in FailedAttempts :
        log[i].attempt + 1 < max_retries =>
            /\ i = Len(log) => retry_pc = "sleep"
            /\ i < Len(log) =>
                /\ log[i + 1].kind = "sleep"
                /\ log[i + 1].delay = 2 ^ log[i].attempt
                /\ i + 1 = Len(log) => retry_pc = "process"

\* the last attempt logged
LastAttempt == log[CHOOSE i \in AttemptsLogged : \A j \in AttemptsLogged : j <= i]
\* text contains part
Contains(text, part) ==
    \E i \in 1 .. Len(text) - Len(part) + 1 :
        SubSeq(text, i, i + Len(part) - 1) = part
\* all max_retries attempts have been made and have failed
AllAttemptsFailed ==
    /\ max_retries > 0
    /\ Cardinality(AttemptsLogged) = max_retries
    /\ FailedAttempts = AttemptsLogged

\* C17: when all max_retries attempts fail, by raising or by returning an
\* unsuccessful response, execute_with_retry returns a failed response whose
\* error carries the error of the last attempt and whose execution_time is
\* the time elapsed since the first attempt began (the claim as stated; after
\* a last attempt that returned an unsuccessful response the error is a fixed
\* text).
C17_TerminalFailureCarriesLastError ==
    (retry_pc = "returned" /\ AllAttemptsFailed) =>
        /\ HasRetryReturned
        /\ retry_returned[1].success = FALSE
        /\ Contains(retry_returned[1].error, LastAttempt.error)
        /\ retry_returned[1].execution_time = clock - start_time

RECURSIVE SumOfBackoffs(_)
\* Backoff(0) + ... + Backoff(n - 1)
SumOfBackoffs(n) == IF n <= 0 THEN 0 ELSE SumOfBackoffs(n - 1) + 2 ^ (n - 1)

\* C18: when process fails exactly max_retries - 1 times, in either way, and
\* then succeeds, execute_with_retry returns a successful response whose
\* execution_time is at least the sum of the backoff delays after the failed
\* attempts, 2^0 + ... + 2^(max_retries - 2) (the claim as stated; attempts
\* that returned an unsuccessful response are followed by no delay).
C18_ElapsedCoversBackoffs ==
    (/\ retry_pc = "returned"
     /\ max_retries > 0
     /\ Cardinality(AttemptsLogged) = max_retries
     /\ Cardinality(FailedAttempts) = max_retries - 1) =>
        /\ HasRetryReturned
        /\ retry_returned[1].success = TRUE
        /\ retry_returned[1].execution_time >= SumOfBackoffs(max_retries - 1)

\* the call has not raised; it has returned exactly when it has handed out a
\* response, which is unsuccessful unless an attempt succeeded
C19_NeverRaises ==
    /\ retry_pc # "raised"
    /\ retry_pc = "returned" <=> HasRetryReturned
    /\ HasRetryReturned =>
        /\ Len(retry_returned) = 1
        /\ retry_returned[1].success \in BOOLEAN
        /\ retry_returned[1].success =>
                \E i \in AttemptsLogged : log[i].outcome = "success"

\* a call that has returned does nothing more
C19_ReturnsOnce ==
    HasRetryReturned => UNCHANGED <<retry_returned, retry_pc, log>>

\* C19: whatever process does, raise or return, execute_with_retry never
\* raises: every call returns, and returns exactly one response, which is
\* unsuccessful whenever no attempt succeeded.
C19_OneTerminalResponse ==
    /\ []C19_NeverRaises
    /\ [][C19_ReturnsOnce]_vars
    /\ (retry_pc # "idle") ~> HasRetryReturned

\* a call with the default max_retries has returned a failure after attempts
\* that raised and attempts that returned unsuccessful responses
C19_Witness ==
    /\ HasRetryReturned
    /\ ~retry_returned[1].success
    /\ max_retries = MAX_RETRIES
    /\ \E i \in AttemptsLogged : log[i].outcome = "raise"
    /\ \E i \in AttemptsLogged : log[i].outcome = "failure"

\* C20: execute_with_retry calls process at most max_retries times (the
\* workflow passes the max_retries option, 3 by default) and stops at the
\* first success: no attempt and no sleep follows a successful attempt, and
\* the response returned then, like every response returned, carries the
\* agent's type and the time elapsed since the first attempt began.
C20_BoundedAttempts ==
    /\ Cardinality(AttemptsLogged) + B2N(retry_pc = "process") <= max_retries
    /\ \A i \in AttemptsLogged :
        /\ log[i].attempt < max_retries
        /\ log[i].outcome = "success" =>
            /\ i = Len(log)
            /\ retry_pc = "returned"
            /\ retry_returned[1].success = TRUE
    /\ HasRetryReturned =>
        /\ retry_returned[1].agent_type = self_agent_type
        /\ retry_returned[1].execution_time = clock - start_time

\* the last of the default number of attempts succeeded
C20_Witness ==
    /\ HasRetryReturned
    /\ retry_returned[1].success
    /\ max_retries = MAX_RETRIES
    /\ Cardinality(AttemptsLogged) = MAX_RETRIES

\* C21: failures the retry wrapper absorbs do not show in the workflow
\* result: when the prompt and the video stage succeed and the image agent
\* fails fewer than max_retries times and then succeeds, the compiled result
\* has success true, agents_succeeded 3, the images the successful attempt
\* returned, and no errors entry.
C21_RetriesAbsorbed ==
    \A w \in WorkflowIds :
        (/\ HasReturned(w)
         /\ PromptOk(w) /\ VideoOk(w)
         /\ self_agent_type = IMAGE_GENERATOR
         /\ AttemptsLogged # {}
         /\ LastAttempt.outcome = "success") =>
            /\ returned[w][1].success = TRUE
            /\ returned[w][1].partial_success = FALSE
            /\ returned[w][1].execution_summary.agents_succeeded = 3
            /\ returned[w][1].execution_summary.agents_failed = 0
            /\ returned[w][1].generated_images = LastAttempt.data[1].generated_images
            /\ "errors" \notin DOMAIN returned[w][1]

\* the image agent raised at the first attempt, returned an unsuccessful
\* response at the second and succeeded at the third, and the workflow has
\* returned its result
C21_Witness ==
    \E w \in WorkflowIds :
        /\ HasReturned(w)
        /\ VideoOk(w)
        /\ max_retries = MAX_RETRIES
        /\ Cardinality(AttemptsLogged) = MAX_RETRIES
        /\ \E i \in AttemptsLogged : log[i].outcome = "raise"
        /\ \E i \in AttemptsLogged : log[i].outcome = "failure"
        /\ LastAttempt.outcome = "success"
        /\ returned[w][1].success

\* vocabulary of the claims about process_batch
BatchItems == DOMAIN product_inputs
HasBatchReturned == batch_returned # <<>>
\* the items whose result counts as a success or a partial success
SucceededItems ==
    { w \in BatchItems :
        /\ HasReturned(w)
        /\ returned[w][1].success \/ Get(returned[w][1], "partial_success", FALSE) }
\* the other items that have returned
FailedItems == { w \in BatchItems : HasReturned(w) /\ w \notin SucceededItems }

\* no more than max_concurrent items are inside process_product
C22_InsideBounded ==
    batch_pc # "idle" => Cardinality(Inside) <= max_concurrent

\* an item enters process_product only while fewer than max_concurrent items
\* are inside
C22_EnterStep ==
    \A w \in BatchItems :
        (pc[w] = "idle" /\ pc'[w] # "idle") => Cardinality(Inside) < max_concurrent

\* C22: process_batch never has more than max_concurrent of its items inside
\* process_product at the same time, whatever the size of the batch.
C22_SemaphoreBound == []C22_InsideBounded /\ [][C22_EnterStep]_vars

\* the semaphore is exhausted and an item of the batch is waiting for it
C22_Witness ==
    /\ batch_pc = "gather"
    /\ Cardinality(Inside) = max_concurrent
    /\ \E w \in BatchItems : pc[w] = "idle"

\* the entries of the summary, successful and failed
SummaryEntries == batch_returned[1].results \o batch_returned[1].failures

\* C23: in process_batch a failure in one item never aborts or alters the
\* execution of its siblings: when the batch returns every item has been run
\* to its own outcome, an item whose prompt stage succeeded has gone through
\* its three stages, and every item's outcome is exactly once in the summary,
\* in results or in failures.
C23_ItemsIsolated ==
    HasBatchReturned =>
        /\ Len(SummaryEntries) = Len(product_inputs)
        /\ \A w \in BatchItems :
            /\ HasReturned(w)
            /\ ~Rejected(w) => PromptDone(w)
            /\ PromptOk(w) => (Len(calls[w]) = 3 /\ VideoDone(w))
            /\ Cardinality({ k \in DOMAIN SummaryEntries :
                                /\ Get(SummaryEntries[k], "workflow_id", 0) = w
                                /\ SummaryEntries[k].success = returned[w][1].success
                                /\ SummaryEntries[k].timestamp = returned[w][1].timestamp
                            }) = 1

\* the batch has returned; the prompt stage of an item failed and an item
\* after it succeeded
C23_Witness ==
    /\ HasBatchReturned
    /\ \E v, w \in BatchItems :
        /\ v < w
        /\ PromptDone(v) /\ ~PromptOk(v)
        /\ returned[w][1].success

\* the product ids the entries of a list of the summary carry
ProductIdsIn(entries) ==
    { Get(entries[k], "product_id", <<>>) : k \in DOMAIN entries }

\* C24: for a batch of N items of which K < N fail and the others succeed the
\* summary has total_products N, successful_count N - K, failed_count K,
\* success_rate (N - K) / N * 100, and its failures list carries exactly the
\* product ids of the K failing items (the claim as stated; the failure
\* entries of items whose process_product returned carry no product id).
C24_BatchCounts ==
    (HasBatchReturned /\ Cardinality(FailedItems) < Len(product_inputs)) =>
        LET N == Len(product_inputs)
            K == Cardinality(FailedItems)
            summary == batch_returned[1]
        IN /\ summary.total_products = N
           /\ summary.successful_count = N - K
           /\ summary.failed_count = K
           /\ summary.success_rate.numerator * N
                = (N - K) * 100 * summary.success_rate.denominator
           /\ ProductIdsIn(summary.failures)
                = { product_inputs[w].product_id : w \in FailedItems }

\* the entries of a list of the summary that belong to workflow w
EntriesOf(entries, w) ==
    { k \in DOMAIN entries : Get(entries[k], "workflow_id", 0) = w }

\* C25: process_batch counts an item as successful exactly when its result
\* reports success or partial_success; every other item is counted as failed,
\* with its error attached to the item's own id, the product id (the claim as
\* stated; the failure entry of an item whose process_product returned is the
\* returned mapping, which has no product id).
C25_BatchClassification ==
    HasBatchReturned =>
        \A w \in BatchItems :
            /\ w \in SucceededItems <=> EntriesOf(batch_returned[1].results, w) # {}
            /\ w \in FailedItems <=> EntriesOf(batch_returned[1].failures, w) # {}
            /\ w \in FailedItems =>
                \A k \in EntriesOf(batch_returned[1].failures, w) :
                    /\ "error" \in DOMAIN batch_returned[1].failures[k]
                    /\ Get(batch_returned[1].failures[k], "product_id", <<>>)
                            = product_inputs[w].product_id

\* C26: every entry of the batch summary, successful or failed, carries the
\* product id of the item it belongs to, whatever order the items complete in
\* (the claim as stated; the entries carry the workflow id that
\* process_product drew, and no product id).
C26_EntriesNameTheirItem ==
    HasBatchReturned =>
        \A w \in BatchItems :
            /\ \A k \in EntriesOf(batch_returned[1].results, w) :
                    Get(batch_returned[1].results[k], "product_id", <<>>)
                        = product_inputs[w].product_id
            /\ \A k \in EntriesOf(batch_returned[1].failures, w) :
                    Get(batch_returned[1].failures[k], "product_id", <<>>)
                        = product_inputs[w].product_id

\* C27: process_batch on an empty list returns a summary with total 0,
\* successful 0, failed 0 and success_rate 0, and does not raise (the claim as
\* stated; the success rate divides by the length of the list).
C27_EmptyBatch ==
    (batch_pc \notin {"idle", "gather"} /\ Len(product_inputs) = 0) =>
        /\ batch_pc = "returned"
        /\ HasBatchReturned
        /\ batch_returned[1].total_products = 0
        /\ batch_returned[1].successful_count = 0
        /\ batch_returned[1].failed_count = 0
        /\ batch_returned[1].success_rate.numerator = 0

\* the workflows that were admitted to the active set
Admitted == { w \in WorkflowIds : pc[w] # "idle" /\ ~Rejected(w) }

\* an admitted workflow is in the active set or in history, never in both
C28_ActiveOrHistory ==
    \A w \in WorkflowIds :
        /\ ~(w \in active_workflows /\ InHistory(w))
        /\ w \in Admitted => (w \in active_workflows \/ InHistory(w))
        /\ w \notin Admitted => (w \notin active_workflows /\ ~InHistory(w))

\* the step in which a record leaves the active set puts it into history
C28_MoveStep ==
    \A w \in active_workflows :
        w \notin active_workflows' =>
            \E k \in DOMAIN workflow_history' :
                /\ k > Len(workflow_history)
                /\ workflow_history'[k] = w

\* C28: a record leaves the active set and enters history in one step, on
\* completion, failure and cancellation alike: in no state is a workflow id in
\* both the active set and history, or, once admitted, in neither.
C28_AtomicMove == []C28_ActiveOrHistory /\ [][C28_MoveStep]_vars

\* records have been moved on each of the three ways
C28_Witness ==
    \E u, v \in WorkflowIds :
        /\ u # v
        /\ InHistory(u) /\ InHistory(v)
        /\ Cancelled(u)
        /\ ~Cancelled(v) /\ workflow[v].status \in {COMPLETED, FAILED}

\* the ids a caller can ask about: those handed out and one that never was
QueryIds == WorkflowIds \cup {0}

\* C29: get_workflow_status(id) looks in the active set first and then in
\* history: for an active id it returns an active view (is_active true, the
\* current stage, no result field), for an id in history a historical view
\* (is_active false, result_available), and None for an id that was never
\* admitted.
C29_StatusViews ==
    \A id \in QueryIds :
        LET view == get_workflow_status(id)
        IN /\ id \in active_workflows =>
                /\ view # <<>>
                /\ view[1].workflow_id = id
                /\ view[1].is_active = TRUE
                /\ view[1].status = RUNNING
                /\ view[1].current_agent = workflow[id].current_agent
                /\ view[1].current_agent = pc[id]
                /\ DOMAIN view[1] \cap {"result", "result_available"} = {}
           /\ (id \in WorkflowIds /\ id \notin active_workflows /\ InHistory(id)) =>
                /\ view # <<>>
                /\ view[1].workflow_id = id
                /\ view[1].is_active = FALSE
                /\ view[1].status = workflow[id].status
                /\ "current_agent" \notin DOMAIN view[1]
                /\ view[1].result_available = (workflow[id].result # <<>>)
           /\ id \notin Admitted => view = <<>>

\* one workflow is active, another is in history with its result, and the id
\* that was never handed out has no status
C29_Witness ==
    /\ \E id \in WorkflowIds :
            /\ id \in active_workflows
            /\ get_workflow_status(id)[1].is_active
    /\ \E id \in WorkflowIds :
            /\ InHistory(id)
            /\ get_workflow_status(id) # <<>>
            /\ get_workflow_status(id)[1].result_available
    /\ get_workflow_status(0) = <<>>

\* the admitted workflows that have terminated: completed, failed or cancelled
Terminated ==
    { w \in DOMAIN pc :
        /\ pc[w] # "idle"
        /\ w \notin active_workflows
        /\ ~Rejected(w) }

\* every terminated workflow has a historical view, and get_system_status
\* lists the last RECENT_WORKFLOWS entries of the history and no more
C30_HistoryViews ==
    /\ \A id \in Terminated :
        /\ get_workflow_status(id) # <<>>
        /\ get_workflow_status(id)[1].workflow_id = id
        /\ get_workflow_status(id)[1].is_active = FALSE
    /\ LET recent == get_system_status.recent_workflows
           skipped == Len(workflow_history) - Len(recent)
       IN /\ Len(recent) <= RECENT_WORKFLOWS
          /\ Len(workflow_history) >= RECENT_WORKFLOWS => Len(recent) = RECENT_WORKFLOWS
          /\ Len(workflow_history) <= RECENT_WORKFLOWS => skipped = 0
          /\ \A k \in DOMAIN recent :
                recent[k].workflow_id = workflow_history[skipped + k]
          /\ get_system_status.total_workflows_processed = Len(workflow_history)

\* no step takes an entry out of the history or changes its place
C30_HistoryGrows ==
    /\ Len(workflow_history') >= Len(workflow_history)
    /\ \A k \in DOMAIN workflow_history : workflow_history'[k] = workflow_history[k]

\* C30: history is never evicted: once an admitted workflow has terminated
\* (completed, failed or cancelled), get_workflow_status(id) returns a
\* historical view of it after any later operations, while get_system_status
\* lists only the 10 most recent entries of the history.
C30_HistoryKept == []C30_HistoryViews /\ [][C30_HistoryGrows]_vars

\* the history has outgrown the list of get_system_status: a completed, a
\* failed and a cancelled workflow are no longer listed and still have their
\* historical views
C30_Witness ==
    /\ Len(workflow_history) > RECENT_WORKFLOWS
    /\ \E u, v, w \in Terminated :
        /\ workflow[u].status = COMPLETED /\ ~Cancelled(u)
        /\ workflow[v].status = FAILED /\ ~Cancelled(v)
        /\ Cancelled(w)
        /\ \A id \in {u, v, w} :
            /\ get_workflow_status(id) # <<>>
            /\ \A k \in DOMAIN get_system_status.recent_workflows :
                    get_system_status.recent_workflows[k].workflow_id # id


\* a second call of the compiler with the arguments of the first returns what
\* the first returned
C31_SecondCallSame == compiled # <<>> => compiled' = compiled

\* C31: the result compiler is a pure function of the three stage outcomes:
\* two calls with identical outcomes, workflow id and options yield identical
\* results, whenever the calls are made.
C31_CompilerIdempotent == [][C31_SecondCallSame]_vars


\* the stage outcomes given to the compiler, in stage order, with the names
\* their errors are listed under
CompiledStages ==
    << [name |-> "Prompt generation", response |-> compile_args[1].prompt_response],
       [name |-> "Image generation", response |-> compile_args[1].image_response],
       [name |-> "Video generation", response |-> compile_args[1].video_response] >>

IsFailedStage(stage) == ~stage.response.success

FailedStages == SelectSeq(CompiledStages, IsFailedStage)

\* C32: the compiled result's error list has exactly one entry per failed
\* stage, prefixed with the stage's name and in stage order, and none for a
\* stage that succeeded; the errors key is absent when no stage failed, and
\* the number of entries equals agents_failed.
C32_ErrorList ==
    compiled # <<>> =>
        LET r == compiled[1]
        IN /\ ("errors" \in DOMAIN r) = (FailedStages # <<>>)
           /\ r.execution_summary.agents_failed = Len(FailedStages)
           /\ "errors" \in DOMAIN r =>
                /\ Len(r.errors) = Len(FailedStages)
                /\ \A k \in DOMAIN r.errors :
                    r.errors[k] = <<FailedStages[k].name, FailedStages[k].response.error>>

\* the prompt and video stages failed, the image stage did not, and the
\* result lists the two errors
C32_Witness ==
    /\ compiled # <<>>
    /\ ~compile_args[1].prompt_response.success
    /\ compile_args[1].image_response.success
    /\ ~compile_args[1].video_response.success
    /\ Len(compiled[1].errors) = 2

\* C33: each stage's payload section (generated_prompts, generated_images,
\* generated_video) is in the compiled result if and only if the stage's
\* outcome is successful; the section of a failed stage is absent.
C33_SectionsIffSuccess ==
    compiled # <<>> =>
        LET a == compile_args[1]
            r == compiled[1]
        IN /\ ("generated_prompts" \in DOMAIN r) = a.prompt_response.success
           /\ ("generated_images" \in DOMAIN r) = a.image_response.success
           /\ ("generated_video" \in DOMAIN r) = a.video_response.success
           /\ ("prompt_details" \in DOMAIN r) = a.prompt_response.success
           /\ ("image_generation_stats" \in DOMAIN r) = a.image_response.success
           /\ ("video_details" \in DOMAIN r) = a.video_response.success

\* a result with the image section and without the other two
C33_Witness ==
    /\ compiled # <<>>
    /\ ~compile_args[1].prompt_response.success
    /\ compile_args[1].image_response.success
    /\ ~compile_args[1].video_response.success
    /\ "generated_images" \in DOMAIN compiled[1]
    /\ "generated_video" \notin DOMAIN compiled[1]
    /\ "generated_prompts" \notin DOMAIN compiled[1]


\* the item an entry of the summary is about: items and workflows are numbered
\* alike in a batch
ItemOf(entry) == Get(entry, "workflow_id", 0)

\* the entries of a list are about items in the order these were submitted in
InSubmissionOrder(entries) ==
    \A j, k \in DOMAIN entries : j < k => ItemOf(entries[j]) < ItemOf(entries[k])

\* C34: in the batch summary the successful results and the failure entries
\* each appear in the order their items were submitted in, whatever order the
\* items' workflows complete in.
C34_SubmissionOrder ==
    HasBatchReturned =>
        /\ InSubmissionOrder(batch_returned[1].results)
        /\ InSubmissionOrder(batch_returned[1].failures)

\* the second item was turned away for capacity, which is while the first one
\* was in a stage, and so returned before it; the first item failed later and
\* its failure is listed first
C34_Witness ==
    /\ HasBatchReturned
    /\ Len(batch_returned[1].failures) = 2
    /\ Rejected(2)
    /\ ~Rejected(1)
    /\ PromptDone(1)
    /\ ItemOf(batch_returned[1].failures[1]) = 1
    /\ ItemOf(batch_returned[1].failures[2]) = 2


\* C35: every workflow id is at most once in the history list after any
\* submissions, completions and cancellations, so total_workflows_processed is
\* the number of admitted workflows that have terminated (the claim as stated;
\* the code violates it).
C35_HistoryIdsOnce ==
    /\ \A j, k \in DOMAIN workflow_history :
            j # k => workflow_history[j] # workflow_history[k]
    /\ get_system_status.total_workflows_processed = Cardinality(Terminated)


\* the workflows whose task was aborted by its caller
Aborted == { w \in DOMAIN pc : pc[w] = "aborted" }

\* C36: if the task running process_product is aborted by its caller while a
\* stage is in flight, the workflow's record is removed from the active set,
\* so that aborted submissions never consume admission capacity for good (the
\* claim as stated; the code violates it).
C36_AbortFreesCapacity == \A w \in Aborted : w \notin active_workflows


\* no stage call is made for a workflow that has been cancelled
C37_NoCallAfterCancel ==
    \A w \in WorkflowIds : Cancelled(w) => calls'[w] = calls[w]

\* C37: after cancel_workflow(id) has returned true no further stage of that
\* workflow is started: at most the stage in flight at cancellation time runs
\* to completion, and the image and video stages are not invoked afterwards
\* (the claim as stated; the code violates it).
C37_NoStageAfterCancel == [][C37_NoCallAfterCancel]_vars


\* C38: a batch run with max_concurrent <= max_concurrent_workflows, while no
\* other submission or cancellation is in progress, never has an item rejected
\* for capacity: every item is admitted and run through its stages.
C38_BatchWithinCeiling ==
    (batch_pc # "idle" /\ max_concurrent <= max_concurrent_workflows) =>
        /\ \A w \in BatchItems : ~Rejected(w)
        /\ \A w \in BatchItems : HasReturned(w) =>
            /\ PromptDone(w)
            /\ InHistory(w)
            /\ PromptOk(w) => (ImageDone(w) /\ VideoDone(w))

\* a batch of more items than the ceiling admits at a time has returned, all
\* its items having been run
C38_Witness ==
    /\ HasBatchReturned
    /\ max_concurrent <= max_concurrent_workflows
    /\ Cardinality(BatchItems) > max_concurrent_workflows
    /\ \A w \in BatchItems : PromptDone(w) /\ ~Rejected(w)
    /\ \E w \in BatchItems : VideoDone(w)


\* the callers that are inside the agent's process call
InProcess == { c \in DOMAIN retry_pc : retry_pc[c] = "process" }
\* the callers whose execute_with_retry call is in progress
InProgress == { c \in DOMAIN retry_pc : retry_pc[c] \notin {"idle", "returned"} }

\* C39: whenever some workflow is inside an agent's process call, the agent's
\* is_busy flag, which get_system_status reports as it is, is true, also when
\* several workflows running at the same time share the agent; and is_busy is
\* false whenever no execute_with_retry call on the agent is in progress (the
\* claim as stated; the code violates it).
C39_BusyWhileProcessing ==
    /\ InProcess # {} => is_busy = TRUE
    /\ InProgress = {} => is_busy = FALSE


\* the statuses of the records in history
C40_HistoryStatuses ==
    \A k \in DOMAIN workflow_history :
        /\ workflow[workflow_history[k]].status \in {COMPLETED, FAILED}
        /\ workflow[workflow_history[k]].completed_at # <<>>

\* C40: at every point where another task can observe the registry, every
\* record in the active set has status running (pending is never observable)
\* and every record in history has status completed or failed with
\* completed_at set; the partial_success status value is never assigned.
C40_ObservableStatuses ==
    /\ \A w \in active_workflows : workflow[w].status = RUNNING
    /\ C40_HistoryStatuses
    /\ \A w \in DOMAIN workflow : workflow[w].status # PARTIAL_SUCCESS

\* one workflow is running while one that ran its three stages is in history,
\* completed or failed
C40_Witness ==
    /\ \E w \in active_workflows : workflow[w].status = RUNNING
    /\ \E k \in DOMAIN workflow_history :
        /\ workflow[workflow_history[k]].status \in {COMPLETED, FAILED}
        /\ workflow[workflow_history[k]].completed_at # <<>>
        /\ workflow[workflow_history[k]].result # <<>>

====
